---- MODULE Spec2Model ----
(***************************************************************************)
(* Contract-clause extraction pipeline (konstantinmds/charmelio_task).     *)
(*                                                                         *)
(* The model covers the upload handler, the ExtractionWorkflow             *)
(* (parse_pdf -> llm_extract -> store_results) with its retry policies,    *)
(* the three activities with their database transactions, the blob store,  *)
(* the LLM adapter and the read endpoint.                                  *)
(*                                                                         *)
(* Python strings that the code manipulates are sequences of one-character *)
(* strings.  Python None is a sentinel of the type it stands in for.       *)
(***************************************************************************)
EXTENDS Integers, Sequences, FiniteSets, TLC

VARIABLES
    documents,    \* table documents: document id -> row
    extractions,  \* table extractions: a set of rows
    blobs,        \* object storage: bucket -> key -> content
    acts,         \* activity attempts of the run, in scheduling order
    hist,         \* the run's durable record held by the workflow engine
    wf,           \* the workflow function's in-memory state on the worker
    clock,        \* source of created_at
    faults,       \* environment faults injected so far
    http,         \* last response of the HTTP API
    idlog,        \* extraction ids the workflow function has generated and logged
    call          \* last direct call of an adapter function: arguments and result

vars == <<documents, extractions, blobs, acts, hist, wf, clock, faults, http, idlog, call>>

----------------------------------------------------------------------------
(* Bounds of the model *)

\* environment faults in one behaviour: start-to-close timeouts of a live
\* attempt, worker crashes, failed reads or writes of the blob store
MaxFaults == 1
\* calls of store_results in the sequential harness
MaxSeqCalls == 3
\* longest text handed to _truncate_text, and the largest max_chars
MaxTextLen == 11
MaxChars == 10
\* attempts of one run held by the thread pool in the overlap harness
MaxOverlap == 4
MaxPdfPages == 3

----------------------------------------------------------------------------
(* Program constants *)

\* extract_text_and_pages defaults
DefaultMaxSizeMb == 25
DefaultMaxPages == 100
\* settings.MAX_FILE_SIZE_MB
MAX_FILE_SIZE_MB == 25
\* RetryPolicy(maximum_attempts=...) of the three stages
ParseMaximumAttempts == 2
LlmMaximumAttempts == 3
StoreMaximumAttempts == 3
\* LLM adapter
LLM_MAX_RETRIES == 3

----------------------------------------------------------------------------
(* Values *)

DocIds == {"d1"}
ExtractionIds == {"e1", "e2"}

\* an error message: a format string and its two arguments
Msg(kind, a, b) == [kind |-> kind, a |-> a, b |-> b]
NoneMsg == Msg("None", 0, 0)

NoneText == <<"<None>">>
NoneData == [required |-> TRUE, confidence |-> 0, summary |-> "<None>"]
NoneBytes == [header |-> FALSE, size |-> 0, opens |-> FALSE, pages |-> <<>>, none |-> TRUE]

\* no adapter function has been called directly
NoCall ==
    [fn |-> "None", text |-> NoneText, max_chars |-> 0, script |-> <<>>,
     result |-> [sent |-> NoneText]]

IsSpace(c) == c \in {" ", "\n"}

\* str.strip()
RECURSIVE LStrip(_)
LStrip(s) == IF s # <<>> /\ IsSpace(Head(s)) THEN LStrip(Tail(s)) ELSE s
RECURSIVE RStrip(_)
RStrip(s) ==
    IF s # <<>> /\ IsSpace(s[Len(s)]) THEN RStrip(SubSeq(s, 1, Len(s) - 1)) ELSE s
\* (the argument is taken as a value, once)
Strip(s) == CHOOSE r \in {RStrip(LStrip(x)) : x \in {s}} : TRUE

\* "\n\n".join(parts)
RECURSIVE Join(_)
Join(parts) ==
    IF parts = <<>> THEN <<>>
    ELSE IF Len(parts) = 1 THEN Head(parts)
    ELSE Head(parts) \o <<"\n", "\n">> \o Join(Tail(parts))

----------------------------------------------------------------------------
(* app/services/pdf_parser.py *)

\* ctx: the operation, bucket and key a StorageError carries
ParseOk(text, page_count) ==
    [ok |-> TRUE, type |-> "None", msg |-> NoneMsg, ctx |-> <<>>,
     text |-> text, page_count |-> page_count, data |-> NoneData]
Raised(type, msg) ==
    [ok |-> FALSE, type |-> type, msg |-> msg, ctx |-> <<>>,
     text |-> NoneText, page_count |-> 0, data |-> NoneData]
NoneOut == [ok |-> FALSE, type |-> "None", msg |-> NoneMsg, ctx |-> <<>>,
            text |-> NoneText, page_count |-> 0, data |-> NoneData]

\* a page whose extract_text() raises
PageRaises == <<"<extract_text raises>">>

\* the block with has_any_text set from the unstripped page text
ParseBlockRawText(data, max_pages) ==
    LET page_count == Len(data.pages)
        raises == \E i \in 1..page_count : data.pages[i] = PageRaises
        pages_text == [i \in 1..page_count |-> Strip(data.pages[i])]
        has_any_text == \E i \in 1..page_count : data.pages[i] # <<>>
    IN  IF ~data.opens THEN Raised("PDFSyntaxError", Msg("corrupt", 0, 0))
        ELSE IF page_count > max_pages
            THEN Raised("PDFValidationError", Msg("too many pages", page_count, max_pages))
        ELSE IF raises THEN Raised("PDFEncryptionError", Msg("extract_text", 0, 0))
        ELSE IF ~has_any_text
            THEN Raised("PDFValidationError", Msg("no text content", 0, 0))
        ELSE ParseOk(Strip(Join(pages_text)), page_count)

\* the body of the "with pdfplumber.open(...)" block, exceptions included:
\* open, the page count check, the loop over the pages, the text check, the join
ParseBlock(data, max_pages) ==
    LET page_count == Len(data.pages)
        raises == \E i \in 1..page_count : data.pages[i] = PageRaises
        pages_text == [i \in 1..page_count |-> Strip(data.pages[i])]
        has_any_text == \E i \in 1..page_count : pages_text[i] # <<>>
    IN  IF ~data.opens THEN Raised("PDFSyntaxError", Msg("corrupt", 0, 0))
        ELSE IF page_count > max_pages
            THEN Raised("PDFValidationError", Msg("too many pages", page_count, max_pages))
        ELSE IF raises THEN Raised("PDFEncryptionError", Msg("extract_text", 0, 0))
        ELSE IF ~has_any_text
            THEN Raised("PDFValidationError", Msg("no text content", 0, 0))
        ELSE ParseOk(Strip(Join(pages_text)), page_count)

\* the function with the size check ahead of the header check
extract_text_and_pagesSizeFirst(data, max_size_mb, max_pages) ==
    LET max_size_bytes == max_size_mb * 1024 * 1024
        r == ParseBlock(data, max_pages)
    IN  IF data.size > max_size_bytes
            THEN Raised("PDFValidationError", Msg("file too large", data.size, max_size_mb))
        ELSE IF ~data.header
            THEN Raised("PDFValidationError", Msg("missing PDF header", 0, 0))
        ELSE IF r.ok \/ r.type = "PDFValidationError" THEN r
        ELSE Raised("PDFParseError", Msg("failed to parse PDF", 0, 0))

\* the function without the "except PDFValidationError: raise" clause
extract_text_and_pagesWrapAll(data, max_size_mb, max_pages) ==
    LET max_size_bytes == max_size_mb * 1024 * 1024
        r == ParseBlock(data, max_pages)
    IN  IF ~data.header
            THEN Raised("PDFValidationError", Msg("missing PDF header", 0, 0))
        ELSE IF data.size > max_size_bytes
            THEN Raised("PDFValidationError", Msg("file too large", data.size, max_size_mb))
        ELSE IF r.ok THEN r
        ELSE Raised("PDFParseError", Msg("failed to parse PDF", 0, 0))

extract_text_and_pages(data, max_size_mb, max_pages) ==
    LET max_size_bytes == max_size_mb * 1024 * 1024
        r == ParseBlock(data, max_pages)
    IN  IF ~data.header
            THEN Raised("PDFValidationError", Msg("missing PDF header", 0, 0))
        ELSE IF data.size > max_size_bytes
            THEN Raised("PDFValidationError", Msg("file too large", data.size, max_size_mb))
        ELSE IF r.ok \/ r.type = "PDFValidationError" THEN r
        ELSE Raised("PDFParseError", Msg("failed to parse PDF", 0, 0))

----------------------------------------------------------------------------
(* worker/llm_extractor.py *)

LLM_MAX_CHARS == 200000

\* a retry list that leaves out upstream server errors
RetryableErrorsNoServer ==
    {"RateLimitError", "APIConnectionError", "APITimeoutError"}

RETRYABLE_ERRORS ==
    {"RateLimitError", "APIConnectionError", "APITimeoutError", "InternalServerError"}

\* what one client.chat.completions.create call does: raise `kind`, or answer
\* with a body.  A "json" body parses to `data`.
ClientRaises(kind) == [kind |-> kind, data |-> NoneData]
ClientJson(data) == [kind |-> "json", data |-> data]
\* message.content is None or ""
ClientEmpty == [kind |-> "empty", data |-> NoneData]
\* message.content is not JSON
ClientBadJson == [kind |-> "badjson", data |-> NoneData]

\* str.rfind("."): 0-based index of the last ".", -1 when there is none
RECURSIVE RFindPeriod(_)
RFindPeriod(s) ==
    IF s = <<>> THEN -1
    ELSE IF s[Len(s)] = "." THEN Len(s) - 1
    ELSE RFindPeriod(SubSeq(s, 1, Len(s) - 1))

_truncate_text(text, max_chars) ==
    IF Len(text) <= max_chars THEN text
    ELSE LET truncated == SubSeq(text, 1, max_chars)
             last_period == RFindPeriod(truncated)
         IN  IF last_period * 10 > max_chars * 8
                 THEN SubSeq(truncated, 1, last_period + 1)
                 ELSE truncated

\* ExtractionResult.model_validate: parties, dates, clauses and confidence are
\* present, confidence (in hundredths) within [0, 1]
ModelValidates(data) ==
    data.required /\ data.confidence >= 0 /\ data.confidence <= 100

LlmOk(data, calls, sent) ==
    [ok |-> TRUE, type |-> "None", msg |-> NoneMsg, data |-> data, calls |-> calls,
     sent |-> sent]
LlmRaised(msg, calls, sent) ==
    [ok |-> FALSE, type |-> "LLMExtractError", msg |-> msg, data |-> NoneData,
     calls |-> calls, sent |-> sent]

\* _call_openai on the k-th call of the client, given what the client answers
\* on each call (script): the exception class it ends with, or "None"
CallOpenai(resp) ==
    IF resp.kind = "json"
        THEN IF ModelValidates(resp.data)
                 THEN [exc |-> "None", data |-> resp.data]
                 ELSE [exc |-> "ValidationError", data |-> NoneData]
    ELSE IF resp.kind = "empty" THEN [exc |-> "LLMExtractError:Empty response", data |-> NoneData]
    ELSE IF resp.kind = "badjson" THEN [exc |-> "LLMExtractError:Invalid JSON", data |-> NoneData]
    ELSE [exc |-> resp.kind, data |-> NoneData]

\* the call with no retry around it
RetryableCallOnce(script, k) ==
    LET r == CallOpenai(script[k])
    IN  [exc |-> r.exc, data |-> r.data, calls |-> k]

\* a retry on every exception
RECURSIVE RetryableCallAnyError(_, _)
RetryableCallAnyError(script, k) ==
    LET r == CallOpenai(script[k])
    IN  IF r.exc # "None" /\ k < LLM_MAX_RETRIES
            THEN RetryableCallAnyError(script, k + 1)
            ELSE [exc |-> r.exc, data |-> r.data, calls |-> k]

\* the tenacity-wrapped call: retry on RETRYABLE_ERRORS, stop after
\* LLM_MAX_RETRIES attempts, reraise the last exception
RECURSIVE RetryableCall(_, _)
RetryableCall(script, k) ==
    LET r == CallOpenai(script[k])
    IN  IF r.exc \in RETRYABLE_ERRORS /\ k < LLM_MAX_RETRIES
            THEN RetryableCall(script, k + 1)
            ELSE [exc |-> r.exc, data |-> r.data, calls |-> k]

\* extract_clauses without its input validation
extract_clausesNoCheck(text, script) ==
    LET r == RetryableCall(script, 1)
    IN  IF r.exc = "None" THEN LlmOk(r.data, r.calls, text)
        ELSE LlmRaised(Msg("Unexpected error", 0, 0), r.calls, text)

\* the result of extract_clauses, the number of client calls it made and the
\* user text it sent
extract_clauses(text, script) ==
    IF text = NoneText \/ text = <<>> \/ Strip(text) = <<>>
        THEN LlmRaised(Msg("Empty text provided", 0, 0), 0, NoneText)
    ELSE LET truncated_text == _truncate_text(text, LLM_MAX_CHARS)
             r == RetryableCall(script, 1)
         IN  IF r.exc = "None" THEN LlmOk(r.data, r.calls, truncated_text)
             ELSE IF r.exc \in RETRYABLE_ERRORS
                 THEN LlmRaised(Msg("API error after retries", LLM_MAX_RETRIES, 0),
                                r.calls, truncated_text)
             ELSE IF r.exc \in {"AuthenticationError", "BadRequestError"}
                 THEN LlmRaised(Msg("Non-retryable API error", 0, 0), r.calls, truncated_text)
             ELSE LlmRaised(Msg("Unexpected error", 0, 0), r.calls, truncated_text)

----------------------------------------------------------------------------
(* Uploaded files and client behaviours the model draws from *)

Pdf(header, size, opens, pages) ==
    [header |-> header, size |-> size, opens |-> opens, pages |-> pages, none |-> FALSE]

PdfGoodA == Pdf(TRUE, 2048, TRUE, << <<" ", "a", ".">>, <<"b", "\n">> >>)
PdfGoodB == Pdf(TRUE, 1024, TRUE, << <<"b">> >>)
PdfNoHeader == Pdf(FALSE, 1024, TRUE, << <<"a">> >>)
PdfHuge == Pdf(TRUE, 25 * 1024 * 1024 + 1, TRUE, << <<"a">> >>)
PdfManyPages == Pdf(TRUE, 4096, TRUE, [i \in 1..101 |-> <<"a">>])
PdfScanned == Pdf(TRUE, 1024, TRUE, << <<" ">>, <<>> >>)
PdfCorrupt == Pdf(TRUE, 1024, FALSE, <<>>)

SamplePdfs ==
    {PdfGoodA, PdfGoodB, PdfNoHeader, PdfHuge, PdfManyPages, PdfScanned, PdfCorrupt}

SampleFiles ==
    [content_type : {"application/pdf", "text/plain"}, content : SamplePdfs]
        \cup {[content_type |-> "text/plain", content |-> PdfGoodA]}

DataP == [required |-> TRUE, confidence |-> 85, summary |-> "p"]
DataQ == [required |-> TRUE, confidence |-> 90, summary |-> "q"]
DataBad == [required |-> TRUE, confidence |-> 150, summary |-> "p"]
\* {"parties": {}}: required fields missing
DataIncomplete == [required |-> FALSE, confidence |-> 0, summary |-> "<None>"]

\* what the client answers on calls 1..LLM_MAX_RETRIES of one extract_clauses
Script(a, b, c) == <<a, b, c>>
SampleScripts ==
    { Script(ClientJson(DataP), ClientJson(DataP), ClientJson(DataP)),
      Script(ClientJson(DataQ), ClientJson(DataQ), ClientJson(DataQ)),
      Script(ClientRaises("RateLimitError"), ClientRaises("RateLimitError"),
             ClientJson(DataP)),
      Script(ClientRaises("RateLimitError"), ClientRaises("APITimeoutError"),
             ClientRaises("InternalServerError")),
      Script(ClientRaises("AuthenticationError"), ClientJson(DataP), ClientJson(DataP)),
      Script(ClientJson(DataBad), ClientJson(DataP), ClientJson(DataP)) }

\* the client behaviours the pipeline's llm_extract attempts meet
PipelineScripts ==
    { Script(ClientJson(DataP), ClientJson(DataP), ClientJson(DataP)),
      Script(ClientJson(DataQ), ClientJson(DataQ), ClientJson(DataQ)),
      Script(ClientRaises("RateLimitError"), ClientRaises("APITimeoutError"),
             ClientRaises("InternalServerError")),
      Script(ClientRaises("AuthenticationError"), ClientJson(DataP), ClientJson(DataP)) }

----------------------------------------------------------------------------
(* app/db/models.py: the two tables *)

NoRow ==
    [exists |-> FALSE, status |-> "None", error_message |-> NoneMsg,
     raw_text |-> NoneText, page_count |-> 0]

\* a Document created already in processing
NewDocumentProcessing ==
    [exists |-> TRUE, status |-> "processing", error_message |-> NoneMsg,
     raw_text |-> NoneText, page_count |-> 0]

\* Document(...) as the upload handler creates it
NewDocument ==
    [exists |-> TRUE, status |-> "pending", error_message |-> NoneMsg,
     raw_text |-> NoneText, page_count |-> 0]

DocFields == {"status", "error_message", "raw_text", "page_count"}

\* Extraction(id=..., document_id=..., clauses=..., confidence=..., artifact_key=...)
Extraction(id, document_id, clauses, created_at) ==
    [id |-> id, document_id |-> document_id, clauses |-> clauses,
     confidence |-> clauses.confidence, artifact_key |-> <<document_id, ".json">>,
     created_at |-> created_at]

\* a table without the primary key
PrimaryKeyViolationNone(table, id) == FALSE

\* primary key of extractions: an INSERT with an id already in the table fails
PrimaryKeyViolation(table, id) == \E r \in table : r.id = id

\* foreign key extractions.document_id -> documents.id
ForeignKeyViolation(docs, document_id) == ~docs[document_id].exists

\* The UPDATE a session flushes at commit for a row it loaded as `loaded` and
\* whose attributes were then set to `assigned` (a function on the assigned
\* attribute names): only the attributes whose value differs from the loaded
\* one are written; the others keep the table's current value.
FlushUpdate(current, loaded, assigned) ==
    [f \in DOMAIN current |->
        IF f \in DOMAIN assigned /\ assigned[f] # loaded[f]
            THEN assigned[f] ELSE current[f]]


----------------------------------------------------------------------------
(* Activity attempts *)

Stages == {"parse", "llm", "store"}

FaultAllowed == faults.timeouts + faults.crashes + faults.storage < MaxFaults

ActOk(text, page_count, data) ==
    [ok |-> TRUE, type |-> "None", msg |-> NoneMsg, ctx |-> <<>>,
     text |-> text, page_count |-> page_count, data |-> data]

FirstPc(stage) ==
    IF stage = "parse" THEN "read" ELSE IF stage = "llm" THEN "call" ELSE "put"

\* one attempt of an activity: its arguments, where its thread stands (pc),
\* whether the engine still waits for it (awaited), whether the engine took
\* its outcome (reported), and its locals
NewAct(stage, n, doc, eid, text, data) ==
    [stage |-> stage, n |-> n, doc |-> doc, eid |-> eid, text |-> text, data |-> data,
     pc |-> FirstPc(stage), awaited |-> TRUE, reported |-> FALSE,
     bytes |-> NoneBytes, loaded |-> NoRow, inserted |-> FALSE, ts |-> 0,
     out |-> NoneOut, calls |-> 0]

Acts == 1..Len(acts)
ActsOf(stage) == {a \in Acts : acts[a].stage = stage}
Running(a) == acts[a].pc \notin {"returned", "killed", "done"}

\* the activity function returns or raises: an awaited attempt's outcome waits
\* to be reported to the engine, a timed-out attempt's outcome is dropped
Finish(act, out) ==
    [act EXCEPT !.out = out, !.inserted = FALSE, !.bytes = NoneBytes,
                !.loaded = NoRow, !.ts = 0,
                !.pc = IF act.awaited THEN "returned" ELSE "done"]

PdfKey(document_id) == <<document_id, ".pdf">>
\* one artifact key for every document
JsonKeyShared(document_id) == <<"latest", ".json">>
JsonKey(document_id) == <<document_id, ".json">>
NoJson == <<"<no object>">>
\* json.dumps(extraction_data, indent=2).encode("utf-8")
JsonDumps(data) == <<"json", data.confidence, data.summary>>

\* a storage error raised bare, without _wrap_error
StorageErrorNoContext(op, bucket, key) == Raised("StorageError", Msg(op, 0, 0))

\* _wrap_error: StorageError(op=op, bucket=bucket, key=key, message=str(exc))
StorageError(op, bucket, key) ==
    [Raised("StorageError", Msg(op, 0, 0)) EXCEPT !.ctx = <<op, bucket, key>>]

----------------------------------------------------------------------------
(* worker/activities.py: parse_pdf *)

\* storage.get_bytes, then the session's query for the Document
ParseRead(a) ==
    /\ acts[a].stage = "parse" /\ acts[a].pc = "read"
    /\ LET key == PdfKey(acts[a].doc)
           row == documents[acts[a].doc]
       IN  \/ /\ FaultAllowed
              /\ faults' = [faults EXCEPT !.storage = @ + 1]
              /\ acts' = [acts EXCEPT ![a] = Finish(@, StorageError("get", "uploads", key))]
           \/ /\ blobs.uploads[key].none
              /\ acts' = [acts EXCEPT ![a] = Finish(@, StorageError("get", "uploads", key))]
              /\ UNCHANGED faults
           \/ /\ ~blobs.uploads[key].none
              /\ acts' = [acts EXCEPT ![a] =
                    IF ~row.exists
                        THEN Finish(@, Raised("ValueError", Msg("Document not found", 0, 0)))
                        ELSE [@ EXCEPT !.bytes = blobs.uploads[key], !.loaded = row,
                                       !.pc = "commit"]]
              /\ UNCHANGED faults
    /\ UNCHANGED <<documents, extractions, blobs, hist, wf, clock, http, idlog, call>>

\* parse_pdf with no except clause: a parse error commits nothing
ParseAssignedNoFail(r) ==
    IF r.ok
        THEN [f \in DocFields |->
                IF f = "raw_text" THEN r.text
                ELSE IF f = "page_count" THEN r.page_count
                ELSE IF f = "status" THEN "processing"
                ELSE NoneMsg]
    ELSE [f \in {} |-> NoneMsg]

\* parse_pdf with "except Exception" in place of "except PDFParseError"
ParseAssignedAnyError(r) ==
    IF r.ok
        THEN [f \in DocFields |->
                IF f = "raw_text" THEN r.text
                ELSE IF f = "page_count" THEN r.page_count
                ELSE IF f = "status" THEN "processing"
                ELSE NoneMsg]
    ELSE [f \in {"status", "error_message"} |->
                IF f = "status" THEN "failed" ELSE r.msg]

\* the attributes parse_pdf assigns on the loaded Document, by outcome of
\* extract_text_and_pages; the empty function when nothing is committed
ParseAssigned(r) ==
    IF r.ok
        THEN [f \in DocFields |->
                IF f = "raw_text" THEN r.text
                ELSE IF f = "page_count" THEN r.page_count
                ELSE IF f = "status" THEN "processing"
                ELSE NoneMsg]
    ELSE IF r.type = "PDFParseError"
        THEN [f \in {"status", "error_message"} |->
                IF f = "status" THEN "failed" ELSE r.msg]
    ELSE [f \in {} |-> NoneMsg]

\* extract_text_and_pages, the assignments, and the session's commit (on
\* success at the end of the with block, on PDFParseError explicitly) or
\* rollback (any other exception)
ParseCommit(a) ==
    /\ acts[a].stage = "parse" /\ acts[a].pc = "commit"
    /\ \E r \in {extract_text_and_pages(acts[a].bytes, DefaultMaxSizeMb, DefaultMaxPages)} :
         LET d == acts[a].doc
         IN  /\ documents' = [documents EXCEPT ![d] =
                    IF @.exists THEN FlushUpdate(@, acts[a].loaded, ParseAssigned(r)) ELSE @]
             /\ acts' = [acts EXCEPT ![a] =
                    Finish(@, IF r.ok THEN ActOk(r.text, r.page_count, NoneData) ELSE r)]
    /\ UNCHANGED <<extractions, blobs, hist, wf, clock, faults, http, idlog, call>>

----------------------------------------------------------------------------
(* worker/activities.py: llm_extract *)

\* llm_extract that records a failure on the Document
LlmCallMarksFailed(a) ==
    /\ acts[a].stage = "llm" /\ acts[a].pc = "call"
    /\ \E script \in PipelineScripts :
         \E r \in {extract_clauses(acts[a].text, script)} :
             /\ acts' = [acts EXCEPT ![a] =
                     Finish([@ EXCEPT !.calls = r.calls],
                            IF r.ok THEN ActOk(NoneText, 0, r.data)
                                    ELSE Raised(r.type, r.msg))]
             /\ documents' = [documents EXCEPT ![acts[a].doc] =
                     IF r.ok THEN @ ELSE [@ EXCEPT !.status = "failed",
                                                   !.error_message = r.msg]]
    /\ UNCHANGED <<extractions, blobs, hist, wf, clock, faults, http, idlog, call>>

\* the whole activity: extract_clauses(text), then model_dump() of the result
LlmCall(a) ==
    /\ acts[a].stage = "llm" /\ acts[a].pc = "call"
    /\ \E script \in PipelineScripts :
         \E r \in {extract_clauses(acts[a].text, script)} :
             acts' = [acts EXCEPT ![a] =
                 Finish([@ EXCEPT !.calls = r.calls],
                        IF r.ok THEN ActOk(NoneText, 0, r.data)
                                ELSE Raised(r.type, r.msg))]
    /\ UNCHANGED <<documents, extractions, blobs, hist, wf, clock, faults, http, idlog, call>>


----------------------------------------------------------------------------
(* worker/activities.py: store_results *)

\* store_results without the blob write ahead of the session
StorePutNoWrite(a) ==
    /\ acts[a].stage = "store" /\ acts[a].pc = "put"
    /\ acts' = [acts EXCEPT ![a].pc = "insert"]
    /\ UNCHANGED <<documents, extractions, blobs, faults, hist, wf, clock, http, idlog, call>>

\* storage.put_bytes of the JSON artifact
StorePut(a) ==
    /\ acts[a].stage = "store" /\ acts[a].pc = "put"
    /\ \/ /\ FaultAllowed
          /\ faults' = [faults EXCEPT !.storage = @ + 1]
          /\ acts' = [acts EXCEPT ![a] = Finish(@, StorageError("put", "extractions", JsonKey(acts[a].doc)))]
          /\ UNCHANGED blobs
       \/ /\ blobs' = [blobs EXCEPT !.extractions[JsonKey(acts[a].doc)] =
                          JsonDumps(acts[a].data)]
          /\ acts' = [acts EXCEPT ![a].pc = "insert"]
          /\ UNCHANGED faults
    /\ UNCHANGED <<documents, extractions, hist, wf, clock, http, idlog, call>>

\* another transaction holds an uncommitted INSERT of the same primary key:
\* the database makes this INSERT wait for that transaction to end
InsertBlocked(a) ==
    \E b \in Acts : b # a /\ acts[b].inserted /\ acts[b].eid = acts[a].eid

\* the INSERT with no except clause around it
InsertOutcomeNoCatch(table, docs, extraction_id, document_id) ==
    IF PrimaryKeyViolation(table, extraction_id)
          \/ ForeignKeyViolation(docs, document_id)
        THEN "raise"
        ELSE "inserted"

\* an INSERT that is always taken for a duplicate
InsertOutcomeAlwaysSkipped(table, docs, extraction_id, document_id) == "skipped"

\* db.add + db.flush inside the try block: what the INSERT does
\*   "inserted"  the row is written in the open transaction
\*   "skipped"   IntegrityError was raised and caught, the session rolled back
InsertOutcome(table, docs, extraction_id, document_id) ==
    IF PrimaryKeyViolation(table, extraction_id)
          \/ ForeignKeyViolation(docs, document_id)
        THEN "skipped"
        ELSE "inserted"

\* the INSERT, then the query for the Document
StoreInsert(a) ==
    /\ acts[a].stage = "store" /\ acts[a].pc = "insert"
    /\ ~InsertBlocked(a)
    /\ LET o == InsertOutcome(extractions, documents, acts[a].eid, acts[a].doc)
       IN  /\ acts' = [acts EXCEPT ![a] =
                  IF o = "raise"
                      THEN Finish(@, Raised("IntegrityError", Msg("insert", 0, 0)))
                      ELSE [@ EXCEPT !.inserted = (o = "inserted"), !.ts = clock,
                                     !.loaded = documents[acts[a].doc], !.pc = "commit"]]
           /\ clock' = IF o = "inserted" THEN clock + 1 ELSE clock
    /\ UNCHANGED <<documents, extractions, blobs, hist, wf, faults, http, idlog, call>>

StoreAssigned ==
    [f \in {"status", "error_message"} |-> IF f = "status" THEN "completed" ELSE NoneMsg]

\* the assignments on the Document, if one was found, and the commit at the
\* end of the with block
StoreCommit(a) ==
    /\ acts[a].stage = "store" /\ acts[a].pc = "commit"
    /\ LET d == acts[a].doc
       IN  /\ extractions' =
                  IF acts[a].inserted
                      THEN extractions \cup
                             {Extraction(acts[a].eid, d, acts[a].data, acts[a].ts)}
                      ELSE extractions
           /\ documents' = [documents EXCEPT ![d] =
                  IF acts[a].loaded.exists /\ @.exists
                      THEN FlushUpdate(@, acts[a].loaded, StoreAssigned) ELSE @]
    /\ acts' = [acts EXCEPT ![a] = Finish(@, ActOk(NoneText, 0, NoneData))]
    /\ UNCHANGED <<blobs, hist, wf, clock, faults, http, idlog, call>>


----------------------------------------------------------------------------
(* worker/workflows.py: ExtractionWorkflow and the engine that runs it *)

Seeds == {1, 2}

\* uuid.uuid4(): a fresh random value at every execution
WorkflowUuid4Plain(seed) == ExtractionIds

\* workflow.uuid4(): drawn from the run's seeded random generator, so the
\* same run yields the same value each time the function is (re)executed
WorkflowUuid4(seed) == {IF seed = 1 THEN "e1" ELSE "e2"}

\* a policy that gives llm_extract one attempt more
MaximumAttemptsLlmFour(stage) ==
    IF stage = "parse" THEN ParseMaximumAttempts
    ELSE IF stage = "llm" THEN LlmMaximumAttempts + 1
    ELSE StoreMaximumAttempts

\* RetryPolicy of each execute_activity call
MaximumAttempts(stage) ==
    IF stage = "parse" THEN ParseMaximumAttempts
    ELSE IF stage = "llm" THEN LlmMaximumAttempts
    ELSE StoreMaximumAttempts

\* a policy that names only PDFParseError
NonRetryableParseErrorOnly(stage) ==
    IF stage = "parse" THEN {"PDFParseError"} ELSE {}

NonRetryableErrorTypes(stage) ==
    IF stage = "parse" THEN {"PDFParseError", "PDFValidationError"} ELSE {}

\* an engine that grants every stage one attempt beyond its policy
WillRetryOneMore(stage, type, n) ==
    n < MaximumAttempts(stage) + 1 /\ type \notin NonRetryableErrorTypes(stage)

\* the engine's decision after attempt n of a stage failed with error `type`
WillRetry(stage, type, n) ==
    n < MaximumAttempts(stage) /\ type \notin NonRetryableErrorTypes(stage)

\* id: the workflow id the run was started with
NoHist ==
    [status |-> "none", id |-> <<>>, seed |-> 0, doc |-> "None",
     parse |-> NoneOut, llm |-> NoneOut, store |-> NoneOut,
     cause |-> NoneOut, result |-> [status |-> "None", document_id |-> "None",
                                    extraction_id |-> "None"]]

NoWf ==
    [loaded |-> FALSE, pc |-> "None", extraction_id |-> "None",
     parsed |-> NoneOut, extracted |-> NoneOut]

Recorded(stage) == hist[stage] # NoneOut

\* an engine whose retry of store_results carries another extraction id
AfterFailureNewId(as, a, out) ==
    IF WillRetry(as[a].stage, out.type, as[a].n)
        THEN Append(as, NewAct(as[a].stage, as[a].n + 1, as[a].doc,
                               IF as[a].stage = "store"
                                   THEN CHOOSE e \in ExtractionIds : e # as[a].eid
                                   ELSE as[a].eid,
                               as[a].text, as[a].data))
        ELSE as

\* the engine takes an attempt's failure: a retry is scheduled with the same
\* arguments, or the failure becomes the activity's result
AfterFailure(as, a, out) ==
    IF WillRetry(as[a].stage, out.type, as[a].n)
        THEN Append(as, NewAct(as[a].stage, as[a].n + 1, as[a].doc, as[a].eid,
                               as[a].text, as[a].data))
        ELSE as

\* the worker reports the outcome of an awaited attempt
Report(a) ==
    /\ acts[a].pc = "returned" /\ acts[a].awaited
    /\ LET out == acts[a].out
           as == [acts EXCEPT ![a].pc = "done", ![a].awaited = FALSE, ![a].reported = TRUE]
       IN  /\ acts' = IF out.ok THEN as ELSE AfterFailure(as, a, out)
           /\ hist' = IF out.ok \/ ~WillRetry(acts[a].stage, out.type, acts[a].n)
                          THEN [hist EXCEPT ![acts[a].stage] = out] ELSE hist
    /\ UNCHANGED <<documents, extractions, blobs, wf, clock, faults, http, idlog, call>>

TimeoutFailure == Raised("TimeoutError", Msg("activity StartToClose timeout", 0, 0))

\* the start-to-close timeout of an awaited attempt passes.  The attempt's
\* thread is not interrupted: a running one keeps running, unawaited.
Timeout(a) ==
    /\ acts[a].awaited /\ acts[a].pc # "done"
    /\ IF acts[a].pc = "killed"
           THEN UNCHANGED faults
           ELSE /\ FaultAllowed
                /\ faults' = [faults EXCEPT !.timeouts = @ + 1]
    /\ LET as == [acts EXCEPT ![a].awaited = FALSE,
                              ![a].pc = IF Running(a) THEN @ ELSE "done"]
       IN  /\ acts' = AfterFailure(as, a, TimeoutFailure)
           /\ hist' = IF ~WillRetry(acts[a].stage, TimeoutFailure.type, acts[a].n)
                          THEN [hist EXCEPT ![acts[a].stage] = TimeoutFailure] ELSE hist
    /\ UNCHANGED <<documents, extractions, blobs, wf, clock, http, idlog, call>>

\* the worker process dies: the workflow's memory and every activity thread
\* are lost, open transactions are rolled back
Crash ==
    /\ hist.status = "running"
    /\ FaultAllowed
    /\ faults' = [faults EXCEPT !.crashes = @ + 1]
    /\ wf' = NoWf
    /\ acts' = [a \in Acts |->
                  IF acts[a].pc = "done" THEN acts[a]
                  ELSE [acts[a] EXCEPT !.inserted = FALSE, !.bytes = NoneBytes,
                                       !.loaded = NoRow, !.ts = 0, !.out = NoneOut,
                                       !.pc = IF acts[a].awaited THEN "killed" ELSE "done"]]
    /\ UNCHANGED <<documents, extractions, blobs, hist, clock, http, idlog, call>>


\* run(): extraction_id = str(workflow.uuid4()), the log line, and the first
\* execute_activity, in the run's first workflow task
WfBegin ==
    /\ hist.status = "running" /\ ~wf.loaded /\ acts = <<>>
    /\ \E id \in WorkflowUuid4(hist.seed) :
         /\ wf' = [NoWf EXCEPT !.loaded = TRUE, !.pc = "parse", !.extraction_id = id]
         /\ idlog' = idlog \cup {id}
    /\ acts' = <<NewAct("parse", 1, hist.doc, "None", NoneText, NoneData)>>
    /\ UNCHANGED <<documents, extractions, blobs, hist, clock, faults, http, call>>

\* after a crash the engine re-executes run() from its first line against the
\* recorded history: activities already scheduled are not scheduled again,
\* recorded results are returned at once
WfResume ==
    /\ hist.status = "running" /\ ~wf.loaded /\ acts # <<>>
    /\ LET last == acts[Len(acts)].stage
       IN  \E id \in WorkflowUuid4(hist.seed) :
             /\ wf' = [loaded |-> TRUE, pc |-> last, extraction_id |-> id,
                       parsed |-> IF last \in {"llm", "store"} THEN hist.parse ELSE NoneOut,
                       extracted |-> IF last = "store" THEN hist.llm ELSE NoneOut]
             /\ idlog' = idlog \cup {id}
    /\ UNCHANGED <<documents, extractions, blobs, acts, hist, clock, faults, http, call>>

\* an activity failed for good: ActivityError propagates out of run()
WorkflowFails(out) ==
    /\ hist' = [hist EXCEPT !.status = "failed", !.cause = out]
    /\ wf' = [wf EXCEPT !.pc = "finished"]
    /\ UNCHANGED acts

\* llm_extract called without the parsed text
LlmArgsNoText(document_id, parsed) ==
    NewAct("llm", 1, document_id, "None", NoneText, NoneData)

\* arguments of the llm_extract call: args=[document_id, parsed["text"]]
LlmArgs(document_id, parsed) ==
    NewAct("llm", 1, document_id, "None", parsed.text, NoneData)

\* store_results called with an id of its own instead of the run's
StoreArgsOwnId(extraction_id, document_id, extracted) ==
    NewAct("store", 1, document_id,
           CHOOSE e \in ExtractionIds : e # extraction_id, NoneText, extracted.data)

\* store_results called with a payload of its own instead of the recorded one
StoreArgsOtherData(extraction_id, document_id, extracted) ==
    NewAct("store", 1, document_id, extraction_id, NoneText,
           [extracted.data EXCEPT !.summary = "other"])

\* arguments of the store_results call: args=[extraction_id, document_id, extracted]
StoreArgs(extraction_id, document_id, extracted) ==
    NewAct("store", 1, document_id, extraction_id, NoneText, extracted.data)

\* "parsed = await execute_activity(parse_pdf, ...)" resumes
WfAfterParse ==
    /\ hist.status = "running" /\ wf.loaded /\ wf.pc = "parse" /\ Recorded("parse")
    /\ IF hist.parse.ok
           THEN /\ wf' = [wf EXCEPT !.pc = "llm", !.parsed = hist.parse]
                /\ acts' = Append(acts, LlmArgs(hist.doc, hist.parse))
                /\ UNCHANGED hist
           ELSE WorkflowFails(hist.parse)
    /\ UNCHANGED <<documents, extractions, blobs, clock, faults, http, idlog, call>>

\* "extracted = await execute_activity(llm_extract, ...)" resumes
WfAfterLlm ==
    /\ hist.status = "running" /\ wf.loaded /\ wf.pc = "llm" /\ Recorded("llm")
    /\ IF hist.llm.ok
           THEN /\ wf' = [wf EXCEPT !.pc = "store", !.extracted = hist.llm]
                /\ acts' = Append(acts, StoreArgs(wf.extraction_id, hist.doc, hist.llm))
                /\ UNCHANGED hist
           ELSE WorkflowFails(hist.llm)
    /\ UNCHANGED <<documents, extractions, blobs, clock, faults, http, idlog, call>>

\* "await execute_activity(store_results, ...)" resumes; run() returns
WfAfterStore ==
    /\ hist.status = "running" /\ wf.loaded /\ wf.pc = "store" /\ Recorded("store")
    /\ IF hist.store.ok
           THEN /\ hist' = [hist EXCEPT !.status = "completed",
                                !.result = [status |-> "completed",
                                            document_id |-> hist.doc,
                                            extraction_id |-> wf.extraction_id]]
                /\ wf' = [wf EXCEPT !.pc = "finished"]
                /\ UNCHANGED acts
           ELSE WorkflowFails(hist.store)
    /\ UNCHANGED <<documents, extractions, blobs, clock, faults, http, idlog, call>>


----------------------------------------------------------------------------
(* app/routes/documents.py: POST /api/extract *)

Response(route, code, detail, body) ==
    [route |-> route, code |-> code, detail |-> detail, body |-> body]
NoResponse == Response("None", 0, "None", [status |-> "None"])

\* a handler that starts the workflow before it uploads the blob
UploadStartsRunFirst(file, temporalUp, document_id) ==
    /\ hist.status = "none" /\ ~documents[document_id].exists
    /\ LET max_bytes == MAX_FILE_SIZE_MB * 1024 * 1024
           reject(code, detail) ==
               /\ http' = Response("POST /api/extract", code, detail, [status |-> "None"])
               /\ UNCHANGED <<documents, blobs, hist, faults>>
       IN  IF file.content_type # "application/pdf"
               THEN reject(400, "Only PDF files supported")
           ELSE IF file.content.size > max_bytes
               THEN reject(413, "File exceeds limit")
           ELSE IF ~temporalUp
               THEN reject(503, "Extraction service unavailable")
           ELSE /\ documents' = [documents EXCEPT ![document_id] = NewDocument]
                /\ \/ \* storage.put_bytes raises
                      /\ FaultAllowed
                      /\ faults' = [faults EXCEPT !.storage = @ + 1]
                      /\ http' = Response("POST /api/extract", 500, "StorageError",
                                          [status |-> "None"])
                      /\ \E seed \in Seeds :
                           hist' = [NoHist EXCEPT !.status = "running", !.seed = seed,
                                                  !.id = <<"extraction-", document_id>>,
                                                  !.doc = document_id]
                      /\ UNCHANGED blobs
                   \/ \* temporal.start_workflow raises
                      /\ blobs' = [blobs EXCEPT !.uploads[PdfKey(document_id)] = file.content]
                      /\ http' = Response("POST /api/extract", 500, "RPCError",
                                          [status |-> "None"])
                      /\ UNCHANGED <<hist, faults>>
                   \/ /\ blobs' = [blobs EXCEPT !.uploads[PdfKey(document_id)] = file.content]
                      /\ \E seed \in Seeds :
                           hist' = [NoHist EXCEPT !.status = "running", !.seed = seed,
                                                  !.id = <<"extraction-", document_id>>,
                                                  !.doc = document_id]
                      /\ http' = Response("POST /api/extract", 200, "None",
                                          [status |-> "pending", document_id |-> document_id])
                      /\ UNCHANGED faults
    /\ UNCHANGED <<extractions, acts, wf, clock, idlog, call>>

\* the whole handler; document_id is the fresh uuid4 it draws
Upload(file, temporalUp, document_id) ==
    /\ hist.status = "none" /\ ~documents[document_id].exists
    /\ LET max_bytes == MAX_FILE_SIZE_MB * 1024 * 1024
           reject(code, detail) ==
               /\ http' = Response("POST /api/extract", code, detail, [status |-> "None"])
               /\ UNCHANGED <<documents, blobs, hist, faults>>
       IN  IF file.content_type # "application/pdf"
               THEN reject(400, "Only PDF files supported")
           ELSE IF file.content.size > max_bytes
               THEN reject(413, "File exceeds limit")
           ELSE IF ~temporalUp
               THEN reject(503, "Extraction service unavailable")
           ELSE /\ documents' = [documents EXCEPT ![document_id] = NewDocument]
                /\ \/ \* storage.put_bytes raises
                      /\ FaultAllowed
                      /\ faults' = [faults EXCEPT !.storage = @ + 1]
                      /\ http' = Response("POST /api/extract", 500, "StorageError",
                                          [status |-> "None"])
                      /\ UNCHANGED <<blobs, hist>>
                   \/ \* temporal.start_workflow raises
                      /\ blobs' = [blobs EXCEPT !.uploads[PdfKey(document_id)] = file.content]
                      /\ http' = Response("POST /api/extract", 500, "RPCError",
                                          [status |-> "None"])
                      /\ UNCHANGED <<hist, faults>>
                   \/ /\ blobs' = [blobs EXCEPT !.uploads[PdfKey(document_id)] = file.content]
                      /\ \E seed \in Seeds :
                           hist' = [NoHist EXCEPT !.status = "running", !.seed = seed,
                                                  !.id = <<"extraction-", document_id>>,
                                                  !.doc = document_id]
                      /\ http' = Response("POST /api/extract", 200, "None",
                                          [status |-> "pending", document_id |-> document_id])
                      /\ UNCHANGED faults
    /\ UNCHANGED <<extractions, acts, wf, clock, idlog, call>>

----------------------------------------------------------------------------
(* app/routes/extractions.py: GET /api/extractions/{document_id} *)

\* .order_by(Extraction.created_at.desc()).limit(1)
LatestExtraction(table, document_id) ==
    LET rows == {r \in table : r.document_id = document_id}
    IN  {r \in rows : \A q \in rows : q.created_at <= r.created_at}

\* _build_extraction_response: the fields of ExtractionResponse
BuildExtractionResponse(doc, document_id, ext) ==
    IF ~ModelValidates(ext.clauses)
        THEN Response("GET /api/extractions", 500, "Stored extraction data corrupted",
                      [status |-> "None"])
        ELSE Response("GET /api/extractions", 200, "None",
                      [extraction_id |-> ext.id, document_id |-> document_id,
                       status |-> doc.status, extraction_result |-> ext.clauses,
                       created_at |-> ext.created_at])

get_latest_extraction(docs, table, document_id) ==
    IF ~docs[document_id].exists
        THEN {Response("GET /api/extractions", 404, "Document not found", [status |-> "None"])}
    ELSE IF LatestExtraction(table, document_id) = {}
        THEN {Response("GET /api/extractions", 404, "No extraction found for document",
                       [status |-> "None"])}
    ELSE {BuildExtractionResponse(docs[document_id], document_id, ext) :
             ext \in LatestExtraction(table, document_id)}

GetLatest(document_id) ==
    /\ http' \in get_latest_extraction(documents, extractions, document_id)
    /\ UNCHANGED <<documents, extractions, blobs, acts, hist, wf, clock, faults, idlog, call>>

----------------------------------------------------------------------------
(* The pipeline: one upload and the run it starts *)

Init ==
    /\ documents = [d \in DocIds |-> NoRow]
    /\ extractions = {}
    /\ blobs = [uploads |-> [k \in {PdfKey(d) : d \in DocIds} |-> NoneBytes],
                extractions |-> [k \in {JsonKey(d) : d \in DocIds} |-> NoJson]]
    /\ acts = <<>>
    /\ hist = NoHist
    /\ wf = NoWf
    /\ clock = 1
    /\ faults = [timeouts |-> 0, crashes |-> 0, storage |-> 0]
    /\ http = NoResponse
    /\ idlog = {}
    /\ call = NoCall

Next ==
    \/ \E f \in SampleFiles, up \in BOOLEAN, d \in DocIds : Upload(f, up, d)
    \/ WfBegin
    \/ WfResume
    \/ WfAfterParse
    \/ WfAfterLlm
    \/ WfAfterStore
    \/ Crash
    \/ \E a \in Acts : ParseRead(a)
    \/ \E a \in Acts : ParseCommit(a)
    \/ \E a \in Acts : LlmCall(a)
    \/ \E a \in Acts : StorePut(a)
    \/ \E a \in Acts : StoreInsert(a)
    \/ \E a \in Acts : StoreCommit(a)
    \/ \E a \in Acts : Report(a)
    \/ \E a \in Acts : Timeout(a)

Spec == Init /\ [][Next]_vars


----------------------------------------------------------------------------
(* The read API beside the pipeline *)

NextApi ==
    \/ Next
    \/ \E d \in DocIds : GetLatest(d)

SpecApi == Init /\ [][NextApi]_vars

----------------------------------------------------------------------------
(* store_results called directly, several times in sequence with the same    *)
(* arguments, as tests/test_activities.py does: the blob store works, the    *)
(* Document row exists in any status                                          *)

SampleMsgs == {NoneMsg, Msg("failed to parse PDF", 0, 0)}

InitSeq ==
    /\ \E st \in {"pending", "processing", "completed", "failed"}, m \in SampleMsgs :
         documents = [d \in DocIds |->
                        [NewDocument EXCEPT !.status = st, !.error_message = m]]
    /\ extractions = {}
    /\ blobs = [uploads |-> [k \in {PdfKey(d) : d \in DocIds} |-> PdfGoodA],
                extractions |-> [k \in {JsonKey(d) : d \in DocIds} |-> NoJson]]
    /\ acts = <<>>
    /\ hist = NoHist
    /\ wf = NoWf
    /\ clock = 1
    /\ faults = [timeouts |-> 0, crashes |-> 0, storage |-> MaxFaults]
    /\ http = NoResponse
    /\ idlog = {}
    /\ call = NoCall

\* the next call starts when the previous one has returned
SeqCall ==
    /\ Len(acts) < MaxSeqCalls
    /\ \A a \in Acts : acts[a].pc = "done"
    /\ \E e \in ExtractionIds, d \in DocIds, data \in {DataP, DataQ} :
         /\ acts # <<>> => e = acts[1].eid /\ d = acts[1].doc /\ data = acts[1].data
         /\ acts' = Append(acts, [NewAct("store", Len(acts) + 1, d, e, NoneText, data)
                                     EXCEPT !.awaited = FALSE])
    /\ UNCHANGED <<documents, extractions, blobs, hist, wf, clock, faults, http, idlog, call>>

NextSeq ==
    \/ SeqCall
    \/ \E a \in Acts : StorePut(a)
    \/ \E a \in Acts : StoreInsert(a)
    \/ \E a \in Acts : StoreCommit(a)

SpecStoreSeq == InitSeq /\ [][NextSeq]_vars


----------------------------------------------------------------------------
(* store_results called directly on any database state: the Document row may *)
(* be missing                                                                 *)

InitStoreAny ==
    /\ \E row \in {NoRow} \cup
                  {[NewDocument EXCEPT !.status = st, !.error_message = m] :
                      st \in {"pending", "processing", "completed", "failed"},
                      m \in SampleMsgs} :
         documents = [d \in DocIds |-> row]
    /\ extractions = {}
    /\ blobs = [uploads |-> [k \in {PdfKey(d) : d \in DocIds} |-> NoneBytes],
                extractions |-> [k \in {JsonKey(d) : d \in DocIds} |-> NoJson]]
    /\ acts = <<>>
    /\ hist = NoHist
    /\ wf = NoWf
    /\ clock = 1
    /\ faults = [timeouts |-> 0, crashes |-> 0, storage |-> MaxFaults]
    /\ http = NoResponse
    /\ idlog = {}
    /\ call = NoCall

SpecStoreAny == InitStoreAny /\ [][NextSeq]_vars

----------------------------------------------------------------------------
(* The attempts of one run as the worker's thread pool may hold them at once: *)
(* an attempt that outlived its start-to-close timeout keeps running beside   *)
(* its retry and beside the attempts of the later stage.  The document is     *)
(* uploaded and pending; the model client's stage is left out, it writes no   *)
(* table.                                                                     *)

InitOverlap ==
    /\ documents = [d \in DocIds |-> NewDocument]
    /\ extractions = {}
    /\ blobs = [uploads |-> [k \in {PdfKey(d) : d \in DocIds} |-> PdfGoodA],
                extractions |-> [k \in {JsonKey(d) : d \in DocIds} |-> NoJson]]
    /\ acts = <<>>
    /\ hist = NoHist
    /\ wf = NoWf
    /\ clock = 1
    /\ faults = [timeouts |-> 0, crashes |-> 0, storage |-> MaxFaults]
    /\ http = NoResponse
    /\ idlog = {}
    /\ call = NoCall

\* the attempts of a stage scheduled so far, and whether the latest of them
\* is still in its thread
Scheduled(stage) == Cardinality(ActsOf(stage))
LatestRunning(stage) ==
    \E a \in ActsOf(stage) : acts[a].n = Scheduled(stage) /\ Running(a)
LatestSucceeded(stage) ==
    \E a \in ActsOf(stage) :
        acts[a].n = Scheduled(stage) /\ acts[a].pc = "done" /\ acts[a].out.ok

\* the engine schedules an attempt: the first parse_pdf attempt; a retry of a
\* stage, within its budget, when the start-to-close timeout of the latest
\* attempt passes while it is still running; the first store_results attempt
\* once the awaited parse_pdf attempt has succeeded
StartAttempt ==
    /\ Len(acts) < MaxOverlap
    /\ \E d \in DocIds :
         \/ /\ \/ Scheduled("parse") = 0
               \/ /\ Scheduled("parse") < ParseMaximumAttempts
                  /\ LatestRunning("parse")
                  /\ Scheduled("store") = 0
            /\ acts' = Append(acts,
                   [NewAct("parse", Scheduled("parse") + 1, d, "None",
                           NoneText, NoneData) EXCEPT !.awaited = FALSE])
         \/ /\ \/ Scheduled("store") = 0 /\ LatestSucceeded("parse")
               \/ /\ Scheduled("store") \in 1..(StoreMaximumAttempts - 1)
                  /\ LatestRunning("store")
            /\ acts' = Append(acts,
                   [NewAct("store", Scheduled("store") + 1, d, "e1",
                           NoneText, DataP) EXCEPT !.awaited = FALSE])
    /\ UNCHANGED <<documents, extractions, blobs, hist, wf, clock, faults, http, idlog, call>>

NextOverlap ==
    \/ StartAttempt
    \/ \E a \in Acts : ParseRead(a)
    \/ \E a \in Acts : ParseCommit(a)
    \/ \E a \in Acts : StorePut(a)
    \/ \E a \in Acts : StoreInsert(a)
    \/ \E a \in Acts : StoreCommit(a)

SpecOverlap == InitOverlap /\ [][NextOverlap]_vars

----------------------------------------------------------------------------
(* The adapter's functions called directly with a scripted client, as         *)
(* tests/test_llm_extractor.py does                                            *)

Chars == {"a", "."}
Texts == UNION {[1..k -> Chars] : k \in 0..MaxTextLen}

\* text arguments of extract_clauses: None, empty, whitespace and real text
ExtractTexts == {NoneText} \cup UNION {[1..k -> {"a", " ", "\n"}] : k \in 0..2}

\* exceptions the scripted client raises
ClientErrors ==
    {"RateLimitError", "APIConnectionError", "APITimeoutError", "InternalServerError",
     "AuthenticationError", "BadRequestError", "RuntimeError"}

\* what the scripted client does on one call
ClientAnswers ==
    {ClientJson(DataP), ClientJson(DataBad), ClientJson(DataIncomplete),
     ClientEmpty, ClientBadJson}
    \cup {ClientRaises(e) : e \in ClientErrors}

AdapterScripts == [1..LLM_MAX_RETRIES -> ClientAnswers]

CallExtractClauses ==
    /\ call = NoCall
    /\ \E text \in ExtractTexts, script \in AdapterScripts :
         call' = [fn |-> "extract_clauses", text |-> text, max_chars |-> LLM_MAX_CHARS,
                  script |-> script, result |-> extract_clauses(text, script)]
    /\ UNCHANGED <<documents, extractions, blobs, acts, hist, wf, clock, faults, http, idlog>>

CallTruncateText ==
    /\ call = NoCall
    /\ \E text \in Texts, max_chars \in 0..MaxChars :
         call' = [fn |-> "_truncate_text", text |-> text, max_chars |-> max_chars,
                  script |-> <<>>, result |-> [sent |-> _truncate_text(text, max_chars)]]
    /\ UNCHANGED <<documents, extractions, blobs, acts, hist, wf, clock, faults, http, idlog>>

NextAdapter ==
    \/ CallExtractClauses
    \/ CallTruncateText

SpecAdapter == Init /\ [][NextAdapter]_vars

----------------------------------------------------------------------------
(* Two runs side by side: two uploaded, pending documents, each with its own  *)
(* run whose attempts follow one another; the steps of the two runs           *)
(* interleave freely.  The model client's answer is a function of the text.   *)

TwoDocs == {"d1", "d2"}
TwoDocPdfs == {PdfGoodA, PdfGoodB, PdfCorrupt}

\* the extraction id each run drew
RunExtractionId(d) == IF d = "d1" THEN "e1" ELSE "e2"

\* the scripted client's answer for a parsed text
AnswerFor(text) == IF Len(text) = 1 THEN DataQ ELSE DataP

InitTwoDocs ==
    /\ documents = [d \in TwoDocs |-> NewDocument]
    /\ extractions = {}
    /\ \E pdfs \in [TwoDocs -> TwoDocPdfs] :
         blobs = [uploads |-> [k \in {PdfKey(d) : d \in TwoDocs} |->
                                  pdfs[CHOOSE d \in TwoDocs : PdfKey(d) = k]],
                  extractions |-> [k \in {JsonKey(d) : d \in TwoDocs} |-> NoJson]]
    /\ acts = <<>>
    /\ hist = NoHist
    /\ wf = NoWf
    /\ clock = 1
    /\ faults = [timeouts |-> 0, crashes |-> 0, storage |-> MaxFaults]
    /\ http = NoResponse
    /\ idlog = {}
    /\ call = NoCall

ActsFor(d) == {a \in Acts : acts[a].doc = d}

\* the run of document d schedules parse_pdf
StartParse(d) ==
    /\ ActsFor(d) = {}
    /\ acts' = Append(acts, [NewAct("parse", 1, d, "None", NoneText, NoneData)
                                EXCEPT !.awaited = FALSE])
    /\ UNCHANGED <<documents, extractions, blobs, hist, wf, clock, faults, http, idlog, call>>

\* parse_pdf of document d returned: its run schedules store_results with the
\* payload extracted from the parsed text
StartStore(d) ==
    /\ \E a \in ActsFor(d) :
         /\ acts[a].stage = "parse" /\ acts[a].pc = "done" /\ acts[a].out.ok
         /\ \A b \in ActsFor(d) : acts[b].stage # "store"
         /\ acts' = Append(acts,
                [NewAct("store", 1, d, RunExtractionId(d), NoneText,
                        AnswerFor(acts[a].out.text)) EXCEPT !.awaited = FALSE])
    /\ UNCHANGED <<documents, extractions, blobs, hist, wf, clock, faults, http, idlog, call>>

NextTwoDocs ==
    \/ \E d \in TwoDocs : StartParse(d)
    \/ \E d \in TwoDocs : StartStore(d)
    \/ \E a \in Acts : ParseRead(a)
    \/ \E a \in Acts : ParseCommit(a)
    \/ \E a \in Acts : StorePut(a)
    \/ \E a \in Acts : StoreInsert(a)
    \/ \E a \in Acts : StoreCommit(a)

SpecTwoDocs == InitTwoDocs /\ [][NextTwoDocs]_vars

\* what the stores hold for document d when its run, started on the pending
\* row with the uploaded bytes `pdf`, has run alone: parse_pdf's commit, then,
\* if it returned, store_results' blob, row and commit
AloneFinal(d, pdf) ==
    LET r == extract_text_and_pages(pdf, DefaultMaxSizeMb, DefaultMaxPages)
        parsed == FlushUpdate(NewDocument, NewDocument, ParseAssigned(r))
        data == AnswerFor(r.text)
    IN  IF r.ok
            THEN [document |-> FlushUpdate(parsed, parsed, StoreAssigned),
                  rows |-> {Extraction(RunExtractionId(d), d, data, 0)},
                  json |-> JsonDumps(data)]
            ELSE [document |-> parsed, rows |-> {}, json |-> NoJson]

----------------------------------------------------------------------------
(* extract_text_and_pages called directly on bytes of every shape, as         *)
(* tests/test_pdf_parser.py does                                               *)

\* what page.extract_text() gives for one page: None or "", whitespace, text
\* with and without whitespace around it, or an exception
PageTexts == {<<>>, <<" ">>, <<"a">>, <<" ", "a", "\n">>, <<"b", " ">>, PageRaises}
PageLists == UNION {[1..k -> PageTexts] : k \in 0..MaxPdfPages}

\* len(data) at and just over one megabyte
ParserSizes == {1024 * 1024, 1024 * 1024 + 1}

\* bytes with or without the header, that pdfplumber opens with the given
\* pages or fails to open
ParserPdfs ==
    {Pdf(h, sz, TRUE, pages) : h \in BOOLEAN, sz \in ParserSizes, pages \in PageLists}
    \cup {Pdf(h, sz, FALSE, <<>>) : h \in BOOLEAN, sz \in ParserSizes}

CallExtractTextAndPages ==
    /\ call = NoCall
    /\ \E data \in ParserPdfs, max_size_mb \in {1, 2}, max_pages \in 1..MaxPdfPages :
         call' = [fn |-> "extract_text_and_pages", text |-> NoneText, max_chars |-> 0,
                  script |-> <<>>, data |-> data, max_size_mb |-> max_size_mb,
                  max_pages |-> max_pages,
                  result |-> extract_text_and_pages(data, max_size_mb, max_pages)]
    /\ UNCHANGED <<documents, extractions, blobs, acts, hist, wf, clock, faults, http, idlog>>

NextParser == CallExtractTextAndPages

SpecParser == Init /\ [][NextParser]_vars

----------------------------------------------------------------------------
(* The pipeline with a worker that keeps running: as long as a workflow     *)
(* task is due, an attempt in a thread has a next step, an outcome waits to   *)
(* be reported, or the start-to-close timeout of an attempt lost in a crash   *)
(* is pending, one of these eventually happens                                *)

Progress ==
    \/ WfBegin
    \/ WfResume
    \/ WfAfterParse
    \/ WfAfterLlm
    \/ WfAfterStore
    \/ \E a \in Acts : ParseRead(a)
    \/ \E a \in Acts : ParseCommit(a)
    \/ \E a \in Acts : LlmCall(a)
    \/ \E a \in Acts : StorePut(a)
    \/ \E a \in Acts : StoreInsert(a)
    \/ \E a \in Acts : StoreCommit(a)
    \/ \E a \in Acts : Report(a)
    \/ \E a \in Acts : acts[a].pc = "killed" /\ Timeout(a)

Fairness == WF_vars(Progress)

SpecFair == Spec /\ Fairness

----------------------------------------------------------------------------
(* Claims *)

RowsWithId(e) == {r \in extractions : r.id = e}
StageRank(stage) == IF stage = "parse" THEN 1 ELSE IF stage = "llm" THEN 2 ELSE 3

\* C1: store_results invoked several times in sequence with the same
\* (extraction_id, document_id, extraction_data): no call raises, once a call
\* has returned there is exactly one Extraction row with that id and the
\* Document is completed, and no step of a second or later call changes the
\* tables or the blob store -- the state stays the one the first call left.
C1_StoreRepeatedSameAsOnce ==
    /\ [](\A a \in Acts : acts[a].pc = "done" => acts[a].out.ok)
    /\ []((\E a \in Acts : acts[a].pc = "done") =>
            /\ Cardinality(RowsWithId(acts[1].eid)) = 1
            /\ \A r \in RowsWithId(acts[1].eid) :
                 r.document_id = acts[1].doc /\ r.clauses = acts[1].data
            /\ documents[acts[1].doc].status = "completed"
            /\ documents[acts[1].doc].error_message = NoneMsg)
    /\ [][(\E a \in Acts : acts[a].n >= 2 /\ Running(a)) =>
            UNCHANGED <<documents, extractions, blobs>>]_vars

C1_Witness ==
    /\ Len(acts) >= 2
    /\ \A a \in Acts : acts[a].pc = "done" /\ acts[a].out.ok
    /\ Cardinality(extractions) = 1

\* C2: the extractions table never holds two rows with one id, also while
\* attempts of store_results for the same id overlap, and no store_results
\* attempt fails on the insert: the only error one ends with is the blob
\* store's.
C2_OneRowPerIdUnderOverlap ==
    /\ \A e \in ExtractionIds : Cardinality(RowsWithId(e)) <= 1
    /\ \A a \in ActsOf("store") :
         acts[a].pc \in {"returned", "done"} /\ ~acts[a].out.ok /\ acts[a].out # NoneOut
            => acts[a].out.type = "StorageError"

\* a retry whose INSERT met the row committed by the earlier, timed-out
\* attempt, and went on to the Document update
C2_Witness ==
    \E a, b \in ActsOf("store") :
        /\ a < b /\ acts[a].eid = acts[b].eid
        /\ acts[a].pc = "done" /\ acts[a].out.ok /\ ~acts[a].reported
        /\ acts[b].pc = "commit" /\ ~acts[b].inserted
        /\ Cardinality(RowsWithId(acts[a].eid)) = 1

\* C3: the run generates one extraction_id, before any activity is
\* scheduled; every store_results attempt carries it and the returned result
\* names it.
C3_OneIdPerRun ==
    /\ Cardinality(idlog) <= 1
    /\ acts # <<>> => idlog # {}
    /\ \A a \in ActsOf("store") : acts[a].eid \in idlog
    /\ hist.status = "completed" => hist.result.extraction_id \in idlog
    /\ wf.loaded => wf.extraction_id \in idlog

\* a completed run whose store stage took two attempts
C3_Witness ==
    /\ hist.status = "completed"
    /\ Cardinality(ActsOf("store")) >= 2

\* C4: when run() is re-executed after a crash it continues with the id
\* generated before the crash, and a stage whose result is recorded gets no
\* further attempt.
C4_ResumeKeepsIdAndProgress ==
    /\ [][(~wf.loaded /\ wf'.loaded /\ acts # <<>>) => wf'.extraction_id \in idlog]_vars
    /\ [][\A st \in Stages :
            Recorded(st) => {a \in DOMAIN acts' : acts'[a].stage = st} = ActsOf(st)]_vars
    /\ [](\A a \in ActsOf("store") : idlog = {acts[a].eid})

\* the run completed after a crash that killed a store_results attempt
C4_Witness ==
    /\ hist.status = "completed"
    /\ faults.crashes = 1
    /\ \E a \in ActsOf("store") : ~acts[a].reported /\ acts[a].out = NoneOut
                                    /\ acts[a].pc = "done"

\* C5: attempts are scheduled in the order parse_pdf, llm_extract,
\* store_results; an llm_extract attempt exists only after a parse_pdf attempt
\* reported success and carries the text that attempt returned; a
\* store_results attempt exists only after an llm_extract attempt reported
\* success and carries the dict that attempt returned.
C5_StageOrderAndData ==
    /\ \A a, b \in Acts : a < b => StageRank(acts[a].stage) <= StageRank(acts[b].stage)
    /\ \A a \in ActsOf("llm") :
         \E p \in ActsOf("parse") :
             /\ p < a /\ acts[p].reported /\ acts[p].out.ok
             /\ acts[a].text = acts[p].out.text
    /\ \A a \in ActsOf("store") :
         \E l \in ActsOf("llm") :
             /\ l < a /\ acts[l].reported /\ acts[l].out.ok
             /\ acts[a].data = acts[l].out.data

\* store_results runs with the dict of the llm_extract attempt that reported
\* success, while a timed-out attempt returned another one
C5_Witness ==
    \E a \in ActsOf("store"), l \in ActsOf("llm") :
        /\ acts[l].out.ok /\ ~acts[l].reported /\ acts[l].pc = "done"
        /\ acts[l].out.data # acts[a].data


\* C6: run() returns the completed result only after a store_results attempt
\* reported success, and when it returns the Document is completed and an
\* Extraction row with the returned id references the document.
C6_CompletedReturnMeansStored ==
    [][(hist.status = "running" /\ hist'.status = "completed") =>
         /\ \E a \in ActsOf("store") : acts[a].reported /\ acts[a].out.ok
         /\ hist'.result = [status |-> "completed", document_id |-> hist.doc,
                            extraction_id |-> wf.extraction_id]
         /\ documents'[hist.doc].status = "completed"
         /\ \E r \in extractions' :
              r.id = hist'.result.extraction_id /\ r.document_id = hist.doc]_vars

\* C7: a failed run leaves the Document failed with a recorded cause.
C7_FailedRunMarksDocumentFailed ==
    hist.status = "failed" =>
        /\ documents[hist.doc].status = "failed"
        /\ documents[hist.doc].error_message # NoneMsg

\* C8: for a document whose run failed, GET /api/extractions/{document_id}
\* answers 200 with status failed and the recorded failure message.
C8_ReadReportsFailure ==
    (/\ hist.status = "failed"
     /\ http.route = "GET /api/extractions"
     /\ http \in get_latest_extraction(documents, extractions, hist.doc))
    => /\ http.code = 200
       /\ http.body.status = "failed"
       /\ "error_message" \in DOMAIN http.body
       /\ http.body.error_message = documents[hist.doc].error_message

StatusRank(st) ==
    IF st = "pending" THEN 1 ELSE IF st = "processing" THEN 2 ELSE 3

\* C9: a Document's status only moves forward along
\* pending -> processing -> {completed | failed} and never leaves completed
\* or failed.
C9_StatusMonotonic ==
    [][\A d \in DocIds :
         (documents[d].exists /\ documents'[d].status # documents[d].status) =>
            /\ StatusRank(documents'[d].status) > StatusRank(documents[d].status)
            /\ documents[d].status \notin {"completed", "failed"}]_vars

ValidationKinds ==
    {"missing PDF header", "file too large", "too many pages", "no text content"}

\* C10 as stated: a run that failed on an invalid-input error made exactly one
\* parse_pdf attempt and no llm_extract or store_results attempt.
C10_ValidationMeansOneAttempt ==
    (hist.status = "failed" /\ hist.cause.type = "PDFValidationError") =>
        /\ Cardinality(ActsOf("parse")) = 1
        /\ ActsOf("llm") = {} /\ ActsOf("store") = {}
        /\ hist.cause.msg.kind \in ValidationKinds

\* C10 amended: the parse_pdf attempt that reports an invalid-input error is the
\* last attempt of the run -- it is not retried, and no llm_extract or
\* store_results attempt is ever scheduled; at most one parse_pdf attempt,
\* ended by a storage error, a timeout or a crash, precedes it; the run does
\* not complete, and fails with the validation message as its cause.
C10_ValidationErrorNotRetried ==
    \A a \in ActsOf("parse") :
        (acts[a].reported /\ acts[a].out.type = "PDFValidationError") =>
            /\ a = Len(acts)
            /\ \A b \in Acts : acts[b].stage = "parse"
            /\ \A b \in Acts : b # a => acts[b].out.type # "PDFValidationError"
                                          \/ ~acts[b].reported
            /\ Len(acts) <= ParseMaximumAttempts
            /\ hist.parse = acts[a].out
            /\ hist.status \in {"running", "failed"}
            /\ hist.status = "failed" => hist.cause = acts[a].out
            /\ acts[a].out.msg.kind \in ValidationKinds

\* a run failed with the validation message as its cause
C10_Witness ==
    /\ hist.status = "failed"
    /\ hist.cause.type = "PDFValidationError"
    /\ hist.cause.msg.kind = "no text content"
    /\ \E a \in ActsOf("parse") : acts[a].reported


\* C11: a parse_pdf attempt that fails with PDFParseError is retried while the
\* stage's budget of 2 attempts lasts, and a run failing on PDFParseError has
\* used the whole budget.
C11_ParseErrorRetried ==
    /\ \A a \in ActsOf("parse") :
         (acts[a].reported /\ acts[a].out.type = "PDFParseError"
            /\ acts[a].n < ParseMaximumAttempts)
         => \E b \in ActsOf("parse") : acts[b].n = acts[a].n + 1
    /\ (hist.status = "failed" /\ hist.cause.type = "PDFParseError")
         => \E a \in ActsOf("parse") : acts[a].n = ParseMaximumAttempts

\* C12: when the client raises an authentication error the client is invoked
\* once in the whole run: the llm_extract attempt that met it made one call,
\* it is the run's only llm_extract attempt, and its failure is the stage's
\* recorded result.
C12_AuthErrorOneInvocation ==
    \A a \in ActsOf("llm") :
        (acts[a].reported /\ acts[a].out.msg.kind = "Non-retryable API error") =>
            /\ acts[a].calls = 1
            /\ ActsOf("llm") = {a}
            /\ hist.llm = acts[a].out


\* the text argument is real text: not None, not empty, not only whitespace
RealText(text) ==
    text # NoneText /\ \E i \in 1..Len(text) : ~IsSpace(text[i])

TransientKinds ==
    {"RateLimitError", "APIConnectionError", "APITimeoutError", "InternalServerError"}

\* C13: when the client raises a rate-limit error on calls 1..N-1 and answers
\* a valid body on call N = LLM_MAX_RETRIES, extract_clauses returns that
\* validated result and has invoked the client exactly N times.
C13_RateLimitThenSuccess ==
    (/\ call.fn = "extract_clauses" /\ RealText(call.text)
     /\ \A k \in 1..(LLM_MAX_RETRIES - 1) : call.script[k] = ClientRaises("RateLimitError")
     /\ call.script[LLM_MAX_RETRIES] = ClientJson(DataP))
    => /\ call.result.ok
       /\ call.result.data = DataP
       /\ call.result.calls = LLM_MAX_RETRIES

C13_Witness ==
    /\ call.fn = "extract_clauses" /\ call.text = <<"a">>
    /\ call.script = [k \in 1..LLM_MAX_RETRIES |->
                        IF k < LLM_MAX_RETRIES THEN ClientRaises("RateLimitError")
                                               ELSE ClientJson(DataP)]
    /\ call.result.ok /\ call.result.calls = LLM_MAX_RETRIES

\* C14: when every client call raises a transient error, one extract_clauses
\* call invokes the client exactly LLM_MAX_RETRIES times and raises
\* LLMExtractError naming retry exhaustion; no extract_clauses call invokes
\* the client more than LLM_MAX_RETRIES times.
C14_TransientExhaustsRetries ==
    call.fn = "extract_clauses" =>
        /\ call.result.calls <= LLM_MAX_RETRIES
        /\ (/\ RealText(call.text)
            /\ \A k \in 1..LLM_MAX_RETRIES : call.script[k].kind \in TransientKinds)
           => /\ ~call.result.ok
              /\ call.result.type = "LLMExtractError"
              /\ call.result.msg = Msg("API error after retries", LLM_MAX_RETRIES, 0)
              /\ call.result.calls = LLM_MAX_RETRIES

C14_Witness ==
    /\ call.fn = "extract_clauses" /\ RealText(call.text)
    /\ call.script[1].kind = "InternalServerError"
    /\ \A k \in 1..LLM_MAX_RETRIES : call.script[k].kind \in TransientKinds
    /\ call.script[1] # call.script[LLM_MAX_RETRIES]
    /\ ~call.result.ok /\ call.result.calls = LLM_MAX_RETRIES

ResponseErrors ==
    {ClientEmpty, ClientBadJson, ClientJson(DataIncomplete), ClientJson(DataBad)}

\* C15: when the client's first answer is an empty body, a body that is not
\* JSON, or JSON failing schema validation, extract_clauses raises
\* LLMExtractError after exactly one client invocation.
C15_ResponseErrorNotRetried ==
    (/\ call.fn = "extract_clauses" /\ RealText(call.text)
     /\ call.script[1] \in ResponseErrors)
    => /\ ~call.result.ok
       /\ call.result.type = "LLMExtractError"
       /\ call.result.calls = 1

C15_Witness ==
    /\ call.fn = "extract_clauses" /\ RealText(call.text)
    /\ call.script[1] = ClientJson(DataBad)
    /\ call.script[LLM_MAX_RETRIES] = ClientJson(DataP)
    /\ ~call.result.ok /\ call.result.calls = 1

\* C16: extract_clauses called with missing, empty or whitespace-only text
\* raises LLMExtractError "Empty text provided" and never invokes the client.
C16_EmptyTextRejected ==
    (call.fn = "extract_clauses" /\ ~RealText(call.text))
    => /\ ~call.result.ok
       /\ call.result.type = "LLMExtractError"
       /\ call.result.msg.kind = "Empty text provided"
       /\ call.result.calls = 0

C16_Witness ==
    /\ call.fn = "extract_clauses" /\ call.text = <<" ", "\n">>
    /\ call.script[1] = ClientJson(DataP)
    /\ ~call.result.ok /\ call.result.calls = 0

\* positions (1-based) of the periods within the last 20% of the first
\* max_chars characters of text
PeriodsInLastFifth(text, max_chars) ==
    {p \in 1..max_chars : text[p] = "." /\ p * 10 > max_chars * 8}

\* C17: _truncate_text returns the text unchanged when it fits; otherwise a
\* prefix of at most max_chars characters that ends at the last period lying
\* within the last 20% of the first max_chars characters when there is one,
\* and is exactly the first max_chars characters when there is none.
C17_TruncateAtSentenceBoundary ==
    call.fn = "_truncate_text" =>
        LET text == call.text
            max_chars == call.max_chars
            sent == call.result.sent
            W == PeriodsInLastFifth(text, max_chars)
        IN  IF Len(text) <= max_chars THEN sent = text
            ELSE /\ Len(sent) <= max_chars
                 /\ sent = SubSeq(text, 1, Len(sent))
                 /\ IF W # {}
                        THEN sent = SubSeq(text, 1, CHOOSE p \in W : \A q \in W : q <= p)
                        ELSE sent = SubSeq(text, 1, max_chars)


\* C18: store_results called for a document_id with no Document row does not
\* raise and stores the result: afterwards an Extraction row with the given
\* extraction_id exists.
C18_MissingDocumentStillStored ==
    \A a \in ActsOf("store") :
        (acts[a].pc = "done" /\ ~documents[acts[a].doc].exists) =>
            /\ acts[a].out.ok
            /\ \E r \in RowsWithId(acts[a].eid) : r.document_id = acts[a].doc

\* C19: the only insert failure store_results turns into success is a
\* duplicate key: an attempt whose insert violates the foreign key fails with
\* the database's error.
C19_OnlyDuplicateKeySwallowed ==
    \A a \in ActsOf("store") :
        (acts[a].pc = "done" /\ ForeignKeyViolation(documents, acts[a].doc)) =>
            /\ ~acts[a].out.ok
            /\ acts[a].out.type = "IntegrityError"

\* C20: when a store_results attempt whose record write succeeded (new insert
\* or detected duplicate) commits and returns, an existing Document row has
\* status completed and no error cause.
C20_StoreLeavesDocumentCompleted ==
    [][\A a \in Acts :
         (/\ a \in DOMAIN acts'
          /\ acts[a].stage = "store" /\ acts[a].pc = "commit"
          /\ acts'[a].pc \in {"done", "returned"} /\ acts'[a].out.ok
          /\ documents[acts[a].doc].exists)
         => /\ documents'[acts[a].doc].status = "completed"
            /\ documents'[acts[a].doc].error_message = NoneMsg]_vars


\* C21: when extract_text_and_pages raises PDFParseError, the step in which
\* parse_pdf raises leaves the Document failed with error_message equal to
\* the error's text, committed, and the error the attempt raises is that
\* PDFParseError; reported to the engine, it becomes the stage's result.
C21_ParseErrorMarksFailed ==
    [][\A a \in Acts :
         /\ (/\ a \in DOMAIN acts'
             /\ acts[a].stage = "parse" /\ acts[a].pc = "commit"
             /\ acts'[a].pc \in {"done", "returned"} /\ acts'[a].out # NoneOut
             /\ extract_text_and_pages(acts[a].bytes, DefaultMaxSizeMb,
                                       DefaultMaxPages).type = "PDFParseError")
            => /\ documents'[acts[a].doc].status = "failed"
               /\ documents'[acts[a].doc].error_message =
                      Msg("failed to parse PDF", 0, 0)
               /\ acts'[a].out = Raised("PDFParseError", Msg("failed to parse PDF", 0, 0))
         /\ (/\ a \in DOMAIN acts'
             /\ ~acts[a].reported /\ acts'[a].reported
             /\ acts[a].out.type = "PDFParseError")
            => hist'.parse = acts[a].out]_vars

C21_Witness ==
    /\ hist.status = "failed"
    /\ hist.cause = Raised("PDFParseError", Msg("failed to parse PDF", 0, 0))
    /\ documents[hist.doc].status = "failed"
    /\ documents[hist.doc].error_message = Msg("failed to parse PDF", 0, 0)

\* C22: the step in which a parse_pdf attempt returns successfully leaves the
\* Document processing with raw_text and page_count equal to the returned
\* values and no error_message; the attempt read the bytes stored under
\* "<document_id>.pdf" in the uploads bucket and returns {text, page_count}.
C22_ParseSuccessSetsProcessing ==
    [][\A a \in Acts :
         (/\ a \in DOMAIN acts'
          /\ acts[a].stage = "parse" /\ acts[a].pc = "commit"
          /\ acts'[a].pc \in {"done", "returned"} /\ acts'[a].out.ok)
         => LET d == acts[a].doc
                r == extract_text_and_pages(blobs.uploads[PdfKey(d)],
                                            DefaultMaxSizeMb, DefaultMaxPages)
            IN  /\ acts[a].bytes = blobs.uploads[PdfKey(d)]
                /\ acts'[a].out = ActOk(r.text, r.page_count, NoneData)
                /\ documents'[d].status = "processing"
                /\ documents'[d].raw_text = acts'[a].out.text
                /\ documents'[d].page_count = acts'[a].out.page_count
                /\ documents'[d].error_message = NoneMsg]_vars

\* C23: every store_results attempt made with one extraction_id carries the
\* same payload, the recorded result of llm_extract, and every row and blob
\* written under that id holds that payload.
C23_OnePayloadPerId ==
    /\ \A a, b \in ActsOf("store") :
         acts[a].eid = acts[b].eid => acts[a].data = acts[b].data
    /\ \A a \in ActsOf("store") : hist.llm.ok /\ acts[a].data = hist.llm.data
    /\ \A r \in extractions :
         \A a \in ActsOf("store") : acts[a].eid = r.id => r.clauses = acts[a].data

\* two attempts of store_results with the same id, the later one finished
C23_Witness ==
    \E a, b \in ActsOf("store") :
        /\ a < b /\ acts[a].eid = acts[b].eid
        /\ acts[b].reported /\ acts[b].out.ok
        /\ \E r \in extractions : r.id = acts[b].eid


\* C24: the step in which the blob write of a store_results attempt fails
\* raises StorageError carrying the operation "put", the extractions bucket
\* and the key "<document_id>.json", and changes no table and no blob; the
\* attempt has inserted nothing.  Reported to the engine the failure uses one
\* of the stage's 3 attempts: a retry with the same arguments follows while
\* the budget lasts, else the error is the stage's result.
C24_BlobWriteFailure ==
    [][\A a \in Acts :
         /\ (/\ a \in DOMAIN acts'
             /\ acts[a].stage = "store" /\ acts[a].pc = "put"
             /\ acts'[a].pc \in {"done", "returned"} /\ acts'[a].out # NoneOut)
            => /\ ~acts'[a].out.ok /\ acts'[a].out.type = "StorageError"
               /\ acts'[a].out.ctx =
                     <<"put", "extractions", <<acts[a].doc, ".json">> >>
               /\ ~acts[a].inserted /\ ~acts'[a].inserted
               /\ UNCHANGED <<extractions, documents, blobs>>
         /\ (/\ a \in DOMAIN acts'
             /\ acts[a].stage = "store" /\ acts[a].out.type = "StorageError"
             /\ ~acts[a].reported /\ acts'[a].reported)
            => /\ acts[a].n <= StoreMaximumAttempts
               /\ IF acts[a].n < StoreMaximumAttempts
                      THEN /\ Len(acts') = Len(acts) + 1
                           /\ acts'[Len(acts')] =
                                 NewAct("store", acts[a].n + 1, acts[a].doc,
                                        acts[a].eid, acts[a].text, acts[a].data)
                           /\ hist' = hist
                      ELSE /\ acts' = [acts EXCEPT ![a].pc = "done",
                                         ![a].awaited = FALSE, ![a].reported = TRUE]
                           /\ hist'.store = acts[a].out]_vars

\* a store_results attempt failed on its blob write and is being retried
C24_Witness ==
    \E a, b \in ActsOf("store") :
        /\ acts[a].reported /\ acts[a].out.type = "StorageError"
        /\ acts[a].out.ctx = <<"put", "extractions", <<acts[a].doc, ".json">> >>
        /\ acts[b].n = acts[a].n + 1 /\ acts[b].eid = acts[a].eid
        /\ RowsWithId(acts[a].eid) = {}
        /\ documents[acts[a].doc].status = "processing"


RowsOfDocument(table, d) ==
    {[r EXCEPT !.created_at = 0] : r \in {x \in table : x.document_id = d}}
RunFinished(d) ==
    /\ ActsFor(d) # {}
    /\ \A a \in ActsFor(d) : acts[a].pc = "done"
    /\ \E a \in ActsFor(d) : acts[a].stage = "store" \/ ~acts[a].out.ok
StoresOf(d) ==
    [document |-> documents[d], rows |-> RowsOfDocument(extractions, d),
     json |-> blobs.extractions[JsonKey(d)]]

\* C25: a step of an attempt for document A reads only A's Document row and
\* A's uploaded blob, and leaves the Document row, the Extraction rows and the
\* blob keys of every other document B as they were; whatever the
\* interleaving, when B's run has finished the stores hold for B what they
\* hold when B's run is the only one (created_at aside).
C25_RunsIndependent ==
    /\ [](\A d \in TwoDocs :
            RunFinished(d) =>
                StoresOf(d) = AloneFinal(d, blobs.uploads[PdfKey(d)]))
    /\ [][\A a \in Acts : \A d \in TwoDocs :
            (a \in DOMAIN acts' /\ acts'[a] # acts[a] /\ acts[a].doc # d)
            => /\ documents'[d] = documents[d]
               /\ RowsOfDocument(extractions', d) = RowsOfDocument(extractions, d)
               /\ blobs'.uploads[PdfKey(d)] = blobs.uploads[PdfKey(d)]
               /\ blobs'.extractions[JsonKey(d)] = blobs.extractions[JsonKey(d)]
               /\ acts'[a].loaded \in {NoRow, documents[acts[a].doc]}
               /\ acts'[a].bytes \in {NoneBytes, blobs.uploads[PdfKey(acts[a].doc)]}]_vars

\* both runs have finished with a stored extraction, their steps interleaved:
\* the second run's parse_pdf started before the first run's store_results
\* committed, and the two documents hold different texts
C25_Witness ==
    /\ \A d \in TwoDocs : RunFinished(d) /\ documents[d].status = "completed"
    /\ documents["d1"].raw_text # documents["d2"].raw_text
    /\ Cardinality(extractions) = 2
    /\ \E a \in ActsFor("d1"), b \in ActsFor("d2") :
         /\ acts[a].stage = "store" /\ acts[b].stage = "parse" /\ b < a
    /\ \E a \in ActsFor("d1"), b \in ActsFor("d2") :
         /\ acts[a].stage = "parse" /\ acts[b].stage = "store" /\ a < b


ParserCalled == call.fn = "extract_text_and_pages"
HasHeader(data) == data.header
WithinSize(data, max_size_mb) == data.size <= max_size_mb * 1024 * 1024
PageHasText(page) == page # PageRaises /\ \E j \in 1..Len(page) : ~IsSpace(page[j])

\* C26: extract_text_and_pages reports the first failing check in the order
\* header, byte size, page count, text presence: without the header the
\* missing-header error whatever the size; with the header and oversize the
\* too-large error whatever the pages; opened with more than max_pages pages
\* the too-many-pages error whatever the pages hold; the no-text error only
\* when the three earlier checks passed.
C26_ChecksInOrder ==
    ParserCalled =>
        LET d == call.data
            r == call.result
        IN  /\ ~HasHeader(d)
                  => r = Raised("PDFValidationError", Msg("missing PDF header", 0, 0))
            /\ (HasHeader(d) /\ ~WithinSize(d, call.max_size_mb))
                  => r = Raised("PDFValidationError",
                                Msg("file too large", d.size, call.max_size_mb))
            /\ (HasHeader(d) /\ WithinSize(d, call.max_size_mb) /\ d.opens
                  /\ Len(d.pages) > call.max_pages)
                  => r = Raised("PDFValidationError",
                                Msg("too many pages", Len(d.pages), call.max_pages))
            /\ (~r.ok /\ r.msg.kind = "no text content")
                  => /\ HasHeader(d) /\ WithinSize(d, call.max_size_mb)
                     /\ Len(d.pages) <= call.max_pages

\* bytes that fail all four checks at once are reported as missing the header
C26_Witness ==
    /\ ParserCalled
    /\ ~HasHeader(call.data) /\ ~WithinSize(call.data, call.max_size_mb)
    /\ call.data.opens /\ Len(call.data.pages) > call.max_pages
    /\ \A i \in 1..Len(call.data.pages) : ~PageHasText(call.data.pages[i])
    /\ call.result.msg.kind = "missing PDF header"

\* the document passed the header, size and page-count checks and every page
\* was read
PassedChecks ==
    /\ ParserCalled
    /\ HasHeader(call.data) /\ WithinSize(call.data, call.max_size_mb)
    /\ call.data.opens /\ Len(call.data.pages) <= call.max_pages
    /\ \A i \in 1..Len(call.data.pages) : call.data.pages[i] # PageRaises

UploadAnswered == http' # http /\ http'.route = "POST /api/extract"

\* C29: a POST /api/extract answered with 400, 413 or 503 leaves the
\* documents table, the blob store and the workflow engine as they were; one
\* answered with 200 has created exactly one Document row, in pending, under
\* a fresh id, stored the upload under "<id>.pdf" and started exactly one
\* workflow, with id "extraction-<id>", for that document.
C29_UploadFrame ==
    [][UploadAnswered =>
         /\ http'.code \in {400, 413, 503}
               => UNCHANGED <<documents, blobs, hist, extractions, acts, wf>>
         /\ http'.code = 200
               => LET d == http'.body.document_id
                  IN  /\ ~documents[d].exists
                      /\ documents'[d].exists /\ documents'[d].status = "pending"
                      /\ \A o \in DOMAIN documents : o # d => documents'[o] = documents[o]
                      /\ Cardinality({o \in DOMAIN documents : documents'[o].exists})
                           = Cardinality({o \in DOMAIN documents : documents[o].exists}) + 1
                      /\ ~blobs'.uploads[PdfKey(d)].none
                      /\ hist.status = "none" /\ hist'.status = "running"
                      /\ hist'.id = <<"extraction-", d>> /\ hist'.doc = d
                      /\ http'.body.status = "pending"
                      /\ UNCHANGED <<extractions, acts, wf>>]_vars

\* an upload that is not a PDF was answered 400 and nothing was created
C29_Witness ==
    /\ http = Response("POST /api/extract", 400, "Only PDF files supported",
                       [status |-> "None"])
    /\ \A d \in DocIds : ~documents[d].exists /\ blobs.uploads[PdfKey(d)].none
    /\ hist = NoHist /\ acts = <<>>


\* an attempt whose thread has taken a step of its activity and has not
\* returned
Executing(a) == Running(a) /\ acts[a].pc # FirstPc(acts[a].stage)

\* C30: for one document at most one activity attempt is executing at any
\* time, attempts that outlived their start-to-close timeout included.
C30_OneAttemptExecuting ==
    \A d \in DocIds :
        Cardinality({a \in Acts : acts[a].doc = d /\ Executing(a)}) <= 1


\* client.chat.completions.create calls made by the attempts as[1..k]
RECURSIVE ClientCalls(_, _)
ClientCalls(as, k) == IF k = 0 THEN 0 ELSE as[k].calls + ClientCalls(as, k - 1)

\* C31: in one run at most 3 llm_extract attempts are made, each invokes the
\* model client at most LLM_MAX_RETRIES (3) times, only llm_extract attempts
\* invoke it, and so the run invokes it at most 9 times.
C31_ClientCallsBounded ==
    /\ Cardinality(ActsOf("llm")) <= 3
    /\ \A a \in Acts :
         acts[a].calls <= (IF acts[a].stage = "llm" THEN LLM_MAX_RETRIES ELSE 0)
    /\ ClientCalls(acts, Len(acts)) <= LLM_MAX_RETRIES * 3
    /\ LLM_MAX_RETRIES * 3 = 9

\* three llm_extract attempts each used up the adapter's three calls
C31_Witness ==
    /\ Cardinality(ActsOf("llm")) = 3
    /\ \A a \in ActsOf("llm") : acts[a].calls = 3 /\ ~acts[a].out.ok /\ acts[a].reported
    /\ ClientCalls(acts, Len(acts)) = 9
    /\ hist.status = "failed"


RunEnded == hist.status \in {"completed", "failed"}

RowsReferencing(d) == {r \in extractions : r.document_id = d}

\* C33: whenever a Document has status completed, an Extraction row
\* referencing it exists; a store_results attempt that commits completed has
\* inserted the row in that transaction or found its id already in the table.
C33_CompletedHasExtraction ==
    \A d \in DocIds :
        documents[d].status = "completed" =>
            /\ RowsReferencing(d) # {}
            /\ \E a \in ActsOf("store") :
                 /\ acts[a].doc = d
                 /\ RowsWithId(acts[a].eid) \subseteq RowsReferencing(d)
                 /\ RowsWithId(acts[a].eid) # {}

\* a document completed by a store_results attempt that found the row of an
\* earlier attempt
C33_Witness ==
    \E d \in DocIds :
        /\ documents[d].status = "completed"
        /\ Cardinality(RowsReferencing(d)) = 1
        /\ \E a, b \in ActsOf("store") :
             a # b /\ acts[a].pc = "done" /\ acts[b].pc = "done"
             /\ acts[a].out.ok /\ acts[b].out.ok


ArtifactStored(d) == blobs.extractions[<<d, ".json">>] # NoJson

\* C34: whenever an Extraction row exists, the artifact "<document_id>.json"
\* it names is in the extractions bucket; an attempt that has reached its
\* insert has written the blob before.
C34_ArtifactBeforeRow ==
    /\ \A r \in extractions :
         /\ r.artifact_key = <<r.document_id, ".json">>
         /\ ArtifactStored(r.document_id)
    /\ \A a \in ActsOf("store") :
         (acts[a].pc \in {"insert", "commit"} \/ acts[a].inserted)
            => ArtifactStored(acts[a].doc)

\* the row is committed and its artifact holds the row's payload
C34_Witness ==
    \E r \in extractions :
        /\ blobs.extractions[<<r.document_id, ".json">>] = JsonDumps(r.clauses)
        /\ \E a \in ActsOf("store") : acts[a].eid = r.id /\ acts[a].pc = "done"


\* C35: a step in which parse_pdf raises anything other than PDFParseError
\* (StorageError from the blob read, ValueError for a missing row, a
\* PDFValidationError from text extraction) changes no Document row, and
\* neither does the step before it, in which the attempt read the blob and
\* the row: the row is as it was before the attempt.
C35_OtherParseFailuresLeaveDocument ==
    [][\A a \in Acts :
         (/\ a \in DOMAIN acts'
          /\ acts[a].stage = "parse" /\ acts[a].pc \in {"read", "commit"}
          /\ \/ acts'[a].pc = "commit" /\ acts[a].pc = "read"
             \/ /\ acts'[a].pc \in {"done", "returned"}
                /\ acts'[a].out # NoneOut /\ ~acts'[a].out.ok
                /\ acts'[a].out.type # "PDFParseError")
         => /\ documents' = documents
            /\ acts'[a].pc # "commit" =>
                 acts'[a].out.type \in {"StorageError", "ValueError", "PDFValidationError"}]_vars

\* a run failed on a validation error of the uploaded file and its Document
\* is still as the upload created it
C35_Witness ==
    /\ hist.status = "failed"
    /\ hist.cause.type = "PDFValidationError"
    /\ documents[hist.doc] = NewDocument


\* C36: the step in which llm_extract returns or raises changes no Document
\* row, no Extraction row and no blob; what it raises is the adapter's
\* LLMExtractError with the adapter's message, what it returns is the
\* adapter's validated result.
C36_LlmExtractWritesNothing ==
    [][\A a \in Acts :
         (/\ a \in DOMAIN acts'
          /\ acts[a].stage = "llm" /\ acts[a].pc = "call"
          /\ acts'[a].pc \in {"done", "returned"} /\ acts'[a].out # NoneOut)
         => /\ UNCHANGED <<documents, extractions, blobs>>
            /\ \E script \in PipelineScripts :
                 \E r \in {extract_clauses(acts[a].text, script)} :
                    /\ acts'[a].calls = r.calls
                    /\ r.ok => /\ acts'[a].out = ActOk(NoneText, 0, r.data)
                               /\ ModelValidates(acts'[a].out.data)
                    /\ ~r.ok => /\ acts'[a].out = Raised("LLMExtractError", r.msg)
                                /\ r.type = "LLMExtractError"]_vars

\* llm_extract failed for good after three attempts: the Document is still
\* processing, no row and no artifact were written
C36_Witness ==
    /\ hist.status = "failed" /\ hist.cause.type = "LLMExtractError"
    /\ hist.llm = hist.cause
    /\ documents[hist.doc].status = "processing"
    /\ documents[hist.doc].error_message = NoneMsg
    /\ extractions = {}
    /\ blobs.extractions[<<hist.doc, ".json">>] = NoJson


\* C37: whenever a workflow run has been started for a document id, the
\* Document row exists and the uploaded bytes are stored under
\* "<document_id>.pdf" in the uploads bucket.
C37_RunStartsAfterRowAndBlob ==
    hist.status # "none" =>
        /\ hist.doc \in DocIds
        /\ hist.id = <<"extraction-", hist.doc>>
        /\ documents[hist.doc].exists
        /\ ~blobs.uploads[<<hist.doc, ".pdf">>].none

\* the run has just been started: the row is pending, the blob is stored and
\* no activity has been scheduled yet
C37_Witness ==
    /\ hist.status = "running" /\ acts = <<>> /\ ~wf.loaded
    /\ documents[hist.doc] = NewDocument
    /\ blobs.uploads[<<hist.doc, ".pdf">>] \in SamplePdfs
    /\ http.code = 200


\* C38: every Document created by an upload eventually has status completed
\* or failed, when the worker keeps running.
C38_DocumentReachesTerminal ==
    \A d \in DocIds :
        documents[d].exists ~> (documents[d].status \in {"completed", "failed"})


\* C39: one run is started per accepted upload, every store_results attempt
\* of the run carries the run's one extraction id, every Extraction row
\* carries that id, and so a document has at most one Extraction row however
\* often activities are retried.
C39_OneRowPerDocument ==
    /\ \A a, b \in ActsOf("store") : acts[a].eid = acts[b].eid
    /\ \A a \in ActsOf("store") : acts[a].doc = hist.doc /\ acts[a].eid \in idlog
    /\ \A r \in extractions :
         /\ r.document_id = hist.doc
         /\ \E a \in ActsOf("store") : acts[a].eid = r.id
    /\ \A d \in DocIds : Cardinality(RowsReferencing(d)) <= 1

\* store_results was retried after its first attempt timed out; both attempts
\* ran to the end and the document has one row
C39_Witness ==
    /\ faults.timeouts = 1
    /\ \E a, b \in ActsOf("store") :
         /\ acts[a].n = 1 /\ acts[b].n = 2
         /\ acts[a].pc = "done" /\ acts[a].out.ok
         /\ acts[b].pc = "done" /\ acts[b].out.ok
    /\ Cardinality(RowsReferencing(hist.doc)) = 1
    /\ hist.status = "completed"


====
